---------------------------- MODULE Spec2Model ----------------------------
(***************************************************************************)
(* The moving-sale catalog page (src/script.js): the image gallery of the  *)
(* rendered cards and the shared lightbox modal, as a state machine over   *)
(* the DOM attributes the handlers read and write.                         *)
(*                                                                         *)
(* Text is a sequence of one-character strings.  Attribute values are kept *)
(* as the text the DOM holds: an image list is the JSON text of the        *)
(* data-images attribute, an index is the decimal text of                  *)
(* data-current-index, and every handler parses them as the code does.     *)
(***************************************************************************)
EXTENDS Integers, Sequences, FiniteSets, TLC

\* ------------------------------------------------------------------ bounds

\* The longest image list of a card.
MaxImages == 3

\* The cards of the rendered grid (one per data row of the CSV).
Cards == {1, 2}

\* const swipeThreshold = 50 (handleSwipe, and again in the modal's touchend).
swipeThreshold == 50
modalSwipeThreshold == 50

\* The screenX values a touch may report where it starts and where it ends.
\* The distances are 0, 51 to the left (just past the threshold), 50 to the
\* right (the threshold itself) and 101 to the right.
StartCoords == {0, swipeThreshold + 1}
EndCoords == {0, 2 * swipeThreshold + 1}

\* null: a missing attribute or element.  No text equals it (a text is a
\* sequence of single characters).
Null == <<"null">>

\* The Number value NaN: an integer no index, length or sum of the model
\* reaches stands for it.
NaN == 0 - 1000000

\* let currentModalCard = null: no card (card ids start at 1).
NoCard == 0

\* ------------------------------------------------------------------- text

DQ == "\""
SQ == "'"
BS == "\\"

RECURSIVE Concat(_)
\* Array.prototype.join('') of a list of texts.
Concat(ts) == IF ts = <<>> THEN <<>> ELSE Head(ts) \o Concat(Tail(ts))

RECURSIVE JoinWith(_, _)
\* Array.prototype.join(sep).
JoinWith(ts, sep) ==
    IF ts = <<>> THEN <<>>
    ELSE IF Len(ts) = 1 THEN ts[1]
    ELSE ts[1] \o sep \o JoinWith(Tail(ts), sep)

Digits == <<"0", "1", "2", "3", "4", "5", "6", "7", "8", "9">>

IsDigit(ch) == \E k \in 1..10 : Digits[k] = ch

DigitValue(ch) == (CHOOSE k \in 1..10 : Digits[k] = ch) - 1

RECURSIVE NumberToString(_)
\* String(n) of an integer, as a template literal or setAttribute writes it;
\* NaN prints as "NaN".
NumberToString(n) ==
    IF n = NaN THEN <<"N", "a", "N">>
    ELSE IF n < 0 THEN <<"-">> \o NumberToString(0 - n)
    ELSE IF n < 10 THEN <<Digits[n + 1]>>
    ELSE NumberToString(n \div 10) \o <<Digits[(n % 10) + 1]>>

RECURSIVE DigitsValue(_, _, _)
DigitsValue(t, i, acc) ==
    IF i > Len(t) \/ ~IsDigit(t[i]) THEN acc
    ELSE DigitsValue(t, i + 1, acc * 10 + DigitValue(t[i]))

\* parseInt(t) of a text: the leading decimal digits after an optional minus
\* sign, NaN when there are none.
parseInt(t) ==
    IF Len(t) >= 1 /\ IsDigit(t[1]) THEN DigitsValue(t, 1, 0)
    ELSE IF Len(t) >= 2 /\ t[1] = "-" /\ IsDigit(t[2]) THEN 0 - DigitsValue(t, 2, 0)
    ELSE NaN

\* parseInt(attr || 0): a missing or empty attribute reads as 0.
parseIntOrZero(attr) ==
    IF attr = Null \/ attr = <<>> THEN 0 ELSE parseInt(attr)

\* The white space String.prototype.trim removes, as far as the texts here go.
IsSpace(ch) == ch \in {" ", "\t", "\n", "\r"}

RECURSIVE TrimStart(_)
TrimStart(t) ==
    IF t # <<>> /\ IsSpace(Head(t)) THEN TrimStart(Tail(t)) ELSE t

RECURSIVE TrimEnd(_)
TrimEnd(t) ==
    IF t # <<>> /\ IsSpace(t[Len(t)]) THEN TrimEnd(SubSeq(t, 1, Len(t) - 1))
    ELSE t

\* String.prototype.trim.
Trim(t) == TrimEnd(TrimStart(t))

RECURSIVE SplitAt(_, _, _, _)
SplitAt(t, sep, i, cur) ==
    IF i > Len(t) THEN <<cur>>
    ELSE IF t[i] = sep THEN <<cur>> \o SplitAt(t, sep, i + 1, <<>>)
    ELSE SplitAt(t, sep, i + 1, Append(cur, t[i]))

\* String.prototype.split(sep) for a one-character separator.
Split(t, sep) == SplitAt(t, sep, 1, <<>>)

RECURSIVE FilterNonEmpty(_)
\* Array.prototype.filter(t => t.length > 0).
FilterNonEmpty(ts) ==
    IF ts = <<>> THEN <<>>
    ELSE (IF Len(Head(ts)) > 0 THEN <<Head(ts)>> ELSE <<>>)
         \o FilterNonEmpty(Tail(ts))

\* ------------------------------------------------------------------- JSON

RECURSIVE JSONQuoteChars(_)
JSONQuoteChars(t) ==
    IF t = <<>> THEN <<>>
    ELSE (IF Head(t) \in {DQ, BS} THEN <<BS, Head(t)>> ELSE <<Head(t)>>)
         \o JSONQuoteChars(Tail(t))

\* JSON.stringify of an array of strings: ["..","..."], with the double quote
\* and the backslash escaped inside each string.
JSONStringify(list) ==
    <<"[">>
    \o JoinWith([k \in 1..Len(list) |-> <<DQ>> \o JSONQuoteChars(list[k]) \o <<DQ>>],
                <<",">>)
    \o <<"]">>

SyntaxError == [ok |-> FALSE]

RECURSIVE JSONScanString(_, _, _)
\* The string whose opening quote is before position i.
JSONScanString(t, i, acc) ==
    IF i > Len(t) THEN SyntaxError
    ELSE IF t[i] = DQ THEN [ok |-> TRUE, val |-> acc, next |-> i + 1]
    ELSE IF t[i] = BS
         THEN IF i + 1 <= Len(t) /\ t[i + 1] \in {DQ, BS}
              THEN JSONScanString(t, i + 2, Append(acc, t[i + 1]))
              ELSE SyntaxError
    ELSE JSONScanString(t, i + 1, Append(acc, t[i]))

RECURSIVE JSONScanElements(_, _, _)
\* The elements of an array from position i, where an element must start.
JSONScanElements(t, i, acc) ==
    IF i > Len(t) \/ t[i] # DQ THEN SyntaxError
    ELSE LET s == JSONScanString(t, i + 1, <<>>) IN
         IF ~s.ok THEN SyntaxError
         ELSE IF s.next > Len(t) THEN SyntaxError
         ELSE IF t[s.next] = "," THEN JSONScanElements(t, s.next + 1, Append(acc, s.val))
         ELSE IF t[s.next] = "]" /\ s.next = Len(t)
              THEN [ok |-> TRUE, val |-> Append(acc, s.val)]
         ELSE SyntaxError

\* JSON.parse of a text, for the texts that reach it here: an array of strings
\* (what JSONStringify writes) parses to that array, and every other text of
\* the model (a cut-off array) is a SyntaxError.
JSONParse(t) ==
    IF Len(t) < 2 \/ t[1] # "[" THEN SyntaxError
    ELSE IF t[2] = "]" THEN (IF Len(t) = 2 THEN [ok |-> TRUE, val |-> <<>>]
                             ELSE SyntaxError)
    ELSE JSONScanElements(t, 2, <<>>)

\* ------------------------------------------------------------------- HTML

RECURSIVE QuotedAttrValue(_, _)
\* The value the HTML parser gives an attribute written quote + t + quote in
\* markup: the text up to the first occurrence of the quote character.
QuotedAttrValue(t, quote) ==
    IF t = <<>> \/ Head(t) = quote THEN <<>>
    ELSE <<Head(t)>> \o QuotedAttrValue(Tail(t), quote)

\* ---------------------------------------------------------------- parsing

ImagesPrefix == <<"i", "m", "a", "g", "e", "s", "/">>

\* parseImages(imagesStr): the comma-separated file names, trimmed, the empty
\* ones dropped, each prefixed with images/.
parseImages(imagesStr) ==
    IF imagesStr = Null \/ Trim(imagesStr) = <<>> THEN <<>>
    ELSE LET parts   == Split(imagesStr, ",")
             trimmed == [k \in 1..Len(parts) |-> Trim(parts[k])]
             kept    == FilterNonEmpty(trimmed)
         IN  [k \in 1..Len(kept) |-> ImagesPrefix \o kept[k]]

\* -------------------------------------------------------------- rendering

\* `${n} / ${total}`: the text of a counter.
CounterText(n, total) ==
    NumberToString(n) \o <<" ", "/", " ">> \o NumberToString(total)

\* The elements a card's markup parses to (renderItemCard, with
\* renderImageContainer): no image container for an item without images;
\* otherwise the container with its data-images attribute, the main image
\* showing images[0] at index 0, and, for more than one image, the two arrow
\* buttons and the counter.  data-images is written between single quotes and
\* the image's attributes between double quotes.  The field images is
\* item.images, the list the card was rendered from; no handler reads it.
renderItemCard(images) ==
    IF Len(images) = 0
    THEN [images |-> images, container |-> FALSE, dataImages |-> Null,
          src |-> Null, fullImage |-> Null, currentIndex |-> Null,
          nav |-> FALSE, counter |-> Null, singleImage |-> TRUE]
    ELSE [images       |-> images,
          container    |-> TRUE,
          dataImages   |-> QuotedAttrValue(JSONStringify(images), SQ),
          src          |-> QuotedAttrValue(images[1], DQ),
          fullImage    |-> QuotedAttrValue(images[1], DQ),
          currentIndex |-> <<"0">>,
          nav          |-> Len(images) > 1,
          counter      |-> IF Len(images) > 1 THEN CounterText(1, Len(images))
                           ELSE Null,
          singleImage  |-> Len(images) <= 1]

\* ------------------------------------------------------------------ state

VARIABLES
    cards,             \* card -> the elements of its image region
    modalActive,       \* #imageModal carries the class "active"
    bodyOverflow,      \* document.body.style.overflow
    currentModalCard,  \* the card that opened the modal, or NoCard
    modalImage,        \* #modalImage: src, data-images, data-current-index
    modalCounter,      \* .modal-counter: textContent, style.display
    modalNavPrev,      \* .modal-nav-prev: style.display
    modalNavNext,      \* .modal-nav-next: style.display
    touchStartX,       \* let touchStartX
    touchEndX,         \* let touchEndX
    modalTouchStartX,  \* let modalTouchStartX
    modalTouchEndX,    \* let modalTouchEndX
    pc,                \* where loadProducts stands, or which function is applied
    fetchCalls,        \* the number of calls of fetch so far
    response,          \* what the fetch came to: rejected, or a response
    csvText,           \* const csvText
    result,            \* what parseCSV(csvText) came to
    rawItem,           \* a row of parseCSV, the argument of normalizeItem
    item,              \* normalizeItem(rawItem)
    grid,              \* .items-grid: innerHTML
    uncaught,          \* an exception has left loadProducts
    arguments,         \* compress-images.sh: the arguments of the script
    folderFiles,       \* compress-images.sh: the files of the image folder
    backupFiles,       \* compress-images.sh: the files copied to originals/
    exitCode           \* compress-images.sh: the exit status, or Running

\* The variables of the gallery, those of loading and rendering, and those
\* of the compression script.
galleryVars == <<cards, modalActive, bodyOverflow, currentModalCard, modalImage,
                 modalCounter, modalNavPrev, modalNavNext, touchStartX, touchEndX,
                 modalTouchStartX, modalTouchEndX>>
loadVars == <<pc, fetchCalls, response, csvText, result, rawItem, item, grid,
              uncaught>>

scriptVars == <<arguments, folderFiles, backupFiles, exitCode>>

vars == <<galleryVars, loadVars, scriptVars>>

\* The exit status of a script that has not exited.
Running == 0 - 1

\* The compression script is no part of the page: it is not run.
ScriptNotRun ==
    /\ arguments = <<>>
    /\ folderFiles = <<>>
    /\ backupFiles = {}
    /\ exitCode = Running

\* The state as one value, which the handlers below map to the next one.
St ==
    [cards |-> cards, modalActive |-> modalActive, bodyOverflow |-> bodyOverflow,
     currentModalCard |-> currentModalCard, modalImage |-> modalImage,
     modalCounter |-> modalCounter, modalNavPrev |-> modalNavPrev,
     modalNavNext |-> modalNavNext, touchStartX |-> touchStartX,
     touchEndX |-> touchEndX, modalTouchStartX |-> modalTouchStartX,
     modalTouchEndX |-> modalTouchEndX]

\* The step to state s.
Becomes(s) ==
    \E t \in {s} :
        /\ cards' = t.cards
        /\ modalActive' = t.modalActive
        /\ bodyOverflow' = t.bodyOverflow
        /\ currentModalCard' = t.currentModalCard
        /\ modalImage' = t.modalImage
        /\ modalCounter' = t.modalCounter
        /\ modalNavPrev' = t.modalNavPrev
        /\ modalNavNext' = t.modalNavNext
        /\ touchStartX' = t.touchStartX
        /\ touchEndX' = t.touchEndX
        /\ modalTouchStartX' = t.modalTouchStartX
        /\ modalTouchEndX' = t.modalTouchEndX
        /\ UNCHANGED <<loadVars, scriptVars>>

\* ----------------------------------------------------------- image lists

\* The text an undefined value is written as (images[i] past the end).
UndefinedText == <<"u", "n", "d", "e", "f", "i", "n", "e", "d">>

\* images[i], as the text an attribute receives.
ImageAt(images, i) ==
    IF i # NaN /\ i + 1 \in 1..Len(images) THEN images[i + 1] ELSE UndefinedText

\* (currentIndex + direction + images.length) % images.length, with the
\* remainder of JavaScript: NaN for a length of 0, the sign of the dividend.
WrapIndex(currentIndex, direction, length) ==
    IF currentIndex = NaN \/ length = 0 THEN NaN
    ELSE LET v == currentIndex + direction + length IN
         IF v >= 0 THEN v % length ELSE 0 - ((0 - v) % length)

\* ------------------------------------------------------- card navigation

\* navigateImage(container, direction) on card c.  JSON.parse throws on a
\* data-images text that is no JSON, before anything is written.
navigateImage(s, c, direction) ==
    LET el     == s.cards[c]
        parsed == JSONParse(el.dataImages)
    IN  IF ~parsed.ok THEN s
        ELSE LET images == parsed.val
                 index  == WrapIndex(parseIntOrZero(el.currentIndex), direction,
                                     Len(images))
             IN  [s EXCEPT !.cards[c] =
                    [el EXCEPT !.src = ImageAt(images, index),
                               !.fullImage = ImageAt(images, index),
                               !.currentIndex = NumberToString(index),
                               !.counter = IF el.counter # Null
                                           THEN CounterText(index + 1, Len(images))
                                           ELSE Null]]

Abs(n) == IF n < 0 THEN 0 - n ELSE n

\* A mutant of handleSwipe: a distance equal to the threshold is a swipe.
handleSwipeAtThreshold(s, c) ==
    LET diff == s.touchStartX - s.touchEndX IN
    IF Abs(diff) >= swipeThreshold
    THEN IF diff > 0 THEN navigateImage(s, c, 1) ELSE navigateImage(s, c, 0 - 1)
    ELSE s

\* handleSwipe(container) on card c.
handleSwipe(s, c) ==
    LET diff == s.touchStartX - s.touchEndX IN
    IF Abs(diff) > swipeThreshold
    THEN IF diff > 0 THEN navigateImage(s, c, 1) ELSE navigateImage(s, c, 0 - 1)
    ELSE s

\* ------------------------------------------------------------------ modal

\* updateModalCounter(index, total).
updateModalCounter(s, index, total) ==
    IF total > 1
    THEN [s EXCEPT !.modalCounter.text = CounterText(index + 1, total)]
    ELSE s

\* openModal(imageSrc, card).  The card is bound first; JSON.parse then throws
\* on a data-images text that is no JSON and the rest does not run.
openModal(s, imageSrc, card) ==
    LET bound  == [s EXCEPT !.currentModalCard = card]
        el     == s.cards[card]
        parsed == JSONParse(el.dataImages)
    IN  IF ~parsed.ok THEN bound
        ELSE LET images       == parsed.val
                 currentIndex == parseIntOrZero(el.currentIndex)
                 hasMultiple  == Len(images) > 1
                 filled == [bound EXCEPT
                              !.modalImage = [src |-> imageSrc,
                                              dataImages |-> JSONStringify(images),
                                              currentIndex |-> NumberToString(currentIndex)]]
                 counted == updateModalCounter(filled, currentIndex, Len(images))
             IN  [counted EXCEPT
                    !.modalNavPrev = IF hasMultiple THEN "flex" ELSE "none",
                    !.modalNavNext = IF hasMultiple THEN "flex" ELSE "none",
                    !.modalCounter.display = IF hasMultiple THEN "block" ELSE "none",
                    !.modalActive = TRUE,
                    !.bodyOverflow = "hidden"]

\* A mutant of syncCard: the card's image is set and its index is not.
syncCardStale(s, images, index) ==
    IF s.currentModalCard = NoCard THEN s
    ELSE LET el == s.cards[s.currentModalCard] IN
         [s EXCEPT !.cards[s.currentModalCard] =
            [el EXCEPT !.src = ImageAt(images, index),
                       !.fullImage = ImageAt(images, index)]]

\* The "Sync with card image" block of navigateModalImage.
syncCard(s, images, index) ==
    IF s.currentModalCard = NoCard THEN s
    ELSE LET el == s.cards[s.currentModalCard] IN
         [s EXCEPT !.cards[s.currentModalCard] =
            [el EXCEPT !.src = ImageAt(images, index),
                       !.currentIndex = NumberToString(index),
                       !.fullImage = ImageAt(images, index),
                       !.counter = IF el.counter # Null
                                   THEN CounterText(index + 1, Len(images))
                                   ELSE Null]]

\* navigateModalImage(direction).  Before any opening #modalImage has no
\* data-images: JSON.parse(null) is null and null.length throws a TypeError
\* before anything is written.
navigateModalImage(s, direction) ==
    IF s.modalImage.dataImages = Null THEN s
    ELSE LET parsed == JSONParse(s.modalImage.dataImages) IN
         IF ~parsed.ok THEN s
         ELSE LET images == parsed.val
                  index  == WrapIndex(parseIntOrZero(s.modalImage.currentIndex),
                                      direction, Len(images))
                  moved  == [s EXCEPT !.modalImage.src = ImageAt(images, index),
                                      !.modalImage.currentIndex = NumberToString(index)]
              IN  syncCard(updateModalCounter(moved, index, Len(images)),
                           images, index)

\* A mutant of closeModal: the card reference is kept.
closeModalKeepsCard(s) ==
    [s EXCEPT !.modalActive = FALSE, !.bodyOverflow = ""]

\* closeModal().
closeModal(s) ==
    [s EXCEPT !.modalActive = FALSE, !.bodyOverflow = "", !.currentModalCard = NoCard]

\* -------------------------------------------------------------- listeners

\* An event target: the class that names the element and, for an element of
\* a card, the card (NoCard for an element of the modal).
Target(class, card) == [class |-> class, card |-> card]

ModalClasses ==
    {"modal-overlay", "modal-content", "modal-close", "modal-nav-prev",
     "modal-nav-next", "modal-image", "modal-counter"}

\* document 'click' listener: "Click arrow buttons on cards".
cardArrowClickListener(s, t) ==
    IF t.class = "image-nav-prev" THEN navigateImage(s, t.card, 0 - 1)
    ELSE IF t.class = "image-nav-next" THEN navigateImage(s, t.card, 1)
    ELSE s

\* A mutant of the main image listener: a click anywhere in a card opens the
\* modal.
mainImageClickListenerAnyTarget(s, t) ==
    IF t.card # NoCard /\ s.cards[t.card].container
    THEN openModal(s, s.cards[t.card].fullImage, t.card)
    ELSE s

\* document 'click' listener: "Click main image to open modal".
mainImageClickListener(s, t) ==
    IF t.class = "item-main-image"
    THEN openModal(s, s.cards[t.card].fullImage, t.card)
    ELSE s

\* modal 'click' listener: "Close modal on overlay click" (e.target === modal).
modalClickListener(s, t) ==
    IF t.class = "modal-overlay" THEN closeModal(s) ELSE s

\* The listeners a click on t runs, in the order of dispatch: those of the
\* target, then the modal's when the target is inside it, then the two of the
\* document in the order they were added.  The modal's arrow buttons stop the
\* propagation; the stopPropagation of the card arrow listener, called on the
\* document, keeps no listener of the document from running.
dispatchClick(s, t) ==
    IF t.class = "modal-nav-prev" THEN navigateModalImage(s, 0 - 1)
    ELSE IF t.class = "modal-nav-next" THEN navigateModalImage(s, 1)
    ELSE LET atTarget == IF t.class = "modal-close" THEN closeModal(s) ELSE s
             atModal  == IF t.class \in ModalClasses
                         THEN modalClickListener(atTarget, t) ELSE atTarget
         IN  mainImageClickListener(cardArrowClickListener(atModal, t), t)

\* document 'touchstart' listener, for a touch inside the card c's container
\* (c = NoCard: closest('.item-image-container') finds none).
cardTouchStartListener(s, c, x) ==
    IF c # NoCard /\ ~s.modalActive THEN [s EXCEPT !.touchStartX = x] ELSE s

\* document 'touchend' listener.
cardTouchEndListener(s, c, x) ==
    IF c # NoCard /\ ~s.modalActive
    THEN handleSwipe([s EXCEPT !.touchEndX = x], c)
    ELSE s

\* modal 'touchstart' listener.
modalTouchStartListener(s, t, x) ==
    IF t.class = "modal-image" THEN [s EXCEPT !.modalTouchStartX = x] ELSE s

\* modal 'touchend' listener.
modalTouchEndListener(s, t, x) ==
    IF t.class = "modal-image"
    THEN LET ended == [s EXCEPT !.modalTouchEndX = x]
             diff  == ended.modalTouchStartX - ended.modalTouchEndX
         IN  IF Abs(diff) > modalSwipeThreshold
             THEN IF diff > 0 THEN navigateModalImage(ended, 1)
                  ELSE navigateModalImage(ended, 0 - 1)
             ELSE ended
    ELSE s

\* The listeners a touchstart on t runs: the modal's for a target inside the
\* modal, then the document's.
dispatchTouchStart(s, t, x) ==
    LET atModal == IF t.class \in ModalClasses
                   THEN modalTouchStartListener(s, t, x) ELSE s
    IN  cardTouchStartListener(atModal, t.card, x)

\* The listeners a touchend on t runs.
dispatchTouchEnd(s, t, x) ==
    LET atModal == IF t.class \in ModalClasses
                   THEN modalTouchEndListener(s, t, x) ELSE s
    IN  cardTouchEndListener(atModal, t.card, x)

\* document 'keydown' listener.
keydownListener(s, key) ==
    IF s.modalActive
    THEN IF key = "Escape" THEN closeModal(s)
         ELSE IF key = "ArrowLeft" THEN navigateModalImage(s, 0 - 1)
         ELSE IF key = "ArrowRight" THEN navigateModalImage(s, 1)
         ELSE s
    ELSE s

\* ----------------------------------------------------------------- inputs

FileLetters == <<"a", "b", "c", "d", "e", "f">>

\* A file name with an apostrophe.
AposName == <<"q", "'", "s">>

\* The file-name lists of the Images column: the first n letters, and the same
\* with the last name replaced by one that has an apostrophe.
NameLists ==
    { [k \in 1..n |-> <<FileLetters[k]>>] : n \in 0..MaxImages }
    \cup { [k \in 1..n |-> IF k = n THEN AposName ELSE <<FileLetters[k]>>] :
             n \in 1..2 }

\* The Images column of a row: the names separated by a comma and a space.
ImagesFields == { JoinWith(names, <<",", " ">>) : names \in NameLists }

Keys == {"Escape", "ArrowLeft", "ArrowRight", "Enter"}

\* ------------------------------------------------------------ the machine

\* After init(): loadProducts has rendered one card per row and createModal
\* has added the modal, hidden and empty.
Init ==
    /\ \E rows \in [Cards -> ImagesFields] :
          cards = [c \in Cards |-> renderItemCard(parseImages(rows[c]))]
    /\ modalActive = FALSE
    /\ bodyOverflow = ""
    /\ currentModalCard = NoCard
    /\ modalImage = [src |-> <<>>, dataImages |-> Null, currentIndex |-> Null]
    /\ modalCounter = [text |-> <<>>, display |-> ""]
    /\ modalNavPrev = ""
    /\ modalNavNext = ""
    /\ touchStartX = 0
    /\ touchEndX = 0
    /\ modalTouchStartX = 0
    /\ modalTouchEndX = 0
    /\ pc = "loaded"
    /\ fetchCalls = 1
    /\ response = Null
    /\ csvText = Null
    /\ result = Null
    /\ rawItem = Null
    /\ item = Null
    /\ grid = Null
    /\ uncaught = FALSE
    /\ ScriptNotRun

\* The state after each event, from the current one.
AfterClick(class, card) == dispatchClick(St, Target(class, card))
AfterTouchStart(class, card, x) == dispatchTouchStart(St, Target(class, card), x)
AfterTouchEnd(class, card, x) == dispatchTouchEnd(St, Target(class, card), x)
AfterKeyDown(key) == keydownListener(St, key)

\* A click on an arrow button of card c (the buttons exist for a card of more
\* than one image).
ClickCardArrow(c, class) ==
    /\ cards[c].nav
    /\ Becomes(AfterClick(class, c))

\* A click on the main image of card c.
ClickMainImage(c) ==
    /\ cards[c].container
    /\ Becomes(AfterClick("item-main-image", c))

\* A click on an element of the modal.
ClickModal(class) ==
    /\ class \in ModalClasses
    /\ Becomes(AfterClick(class, NoCard))

\* A touch starts at x inside the image container of card c.
TouchStartCard(c, x) ==
    /\ cards[c].container
    /\ Becomes(AfterTouchStart("item-main-image", c, x))

\* A touch ends at x inside the image container of card c.
TouchEndCard(c, x) ==
    /\ cards[c].container
    /\ Becomes(AfterTouchEnd("item-main-image", c, x))

\* A touch starts at x on an element of the modal.
TouchStartModal(class, x) ==
    /\ class \in ModalClasses
    /\ Becomes(AfterTouchStart(class, NoCard, x))

\* A touch ends at x on an element of the modal.
TouchEndModal(class, x) ==
    /\ class \in ModalClasses
    /\ Becomes(AfterTouchEnd(class, NoCard, x))

\* A key goes down.
KeyDown(key) ==
    /\ key \in Keys
    /\ Becomes(AfterKeyDown(key))

Next ==
    \/ \E c \in Cards, class \in {"image-nav-prev", "image-nav-next"} :
          ClickCardArrow(c, class)
    \/ \E c \in Cards : ClickMainImage(c)
    \/ \E class \in ModalClasses \ {"modal-image", "modal-counter"} :
          ClickModal(class)
    \/ \E c \in Cards, x \in StartCoords : TouchStartCard(c, x)
    \/ \E c \in Cards, x \in EndCoords : TouchEndCard(c, x)
    \/ \E class \in {"modal-image", "modal-content"}, x \in StartCoords :
          TouchStartModal(class, x)
    \/ \E x \in EndCoords : TouchEndModal("modal-image", x)
    \/ \E x \in StartCoords : TouchEndModal("modal-content", x)
    \/ \E key \in Keys : KeyDown(key)

Spec == Init /\ [][Next]_vars

\* ------------------------------------------------------------- the claims

\* The gallery state of card c as the handlers read it from the DOM: the list
\* that data-images parses to (none when the card has no container or the
\* text is no JSON) and the number that data-current-index parses to.
CardHasList(c) == cards[c].container /\ JSONParse(cards[c].dataImages).ok
CardImages(c) == JSONParse(cards[c].dataImages).val
CardIndex(c) == parseIntOrZero(cards[c].currentIndex)

\* The same of the modal, which has a list once an opening has stored one.
ModalHasList == modalImage.dataImages # Null /\ JSONParse(modalImage.dataImages).ok
ModalImages == JSONParse(modalImage.dataImages).val
ModalIndex == parseIntOrZero(modalImage.currentIndex)

\* An index text that is the decimal text of a position of the list.
ValidIndexText(text, images) ==
    /\ text # Null
    /\ parseInt(text) # NaN
    /\ parseInt(text) \in 0..(Len(images) - 1)
    /\ NumberToString(parseInt(text)) = text

\* C1: in every reachable state the current index of every card with a
\* non-empty image list is an integer i with 0 <= i < images.length, and so is
\* the index of the modal once an opening has given it a list.
C1_IndexInRange ==
    /\ \A c \in Cards :
          Len(cards[c].images) > 0
             => ValidIndexText(cards[c].currentIndex, cards[c].images)
    /\ modalImage.dataImages # Null
          => /\ ModalHasList
             /\ Len(ModalImages) > 0
             /\ ValidIndexText(modalImage.currentIndex, ModalImages)

\* The card's index text in state s.
IndexTextOf(s, c) == s.cards[c].currentIndex

RECURSIVE ClickCardNextTimes(_, _, _)
\* The state after n clicks on the next arrow of card c, from state s.
ClickCardNextTimes(s, c, n) ==
    IF n = 0 THEN s
    ELSE ClickCardNextTimes(dispatchClick(s, Target("image-nav-next", c)), c, n - 1)

RECURSIVE ClickModalNextTimes(_, _)
\* The state after n clicks on the next arrow of the modal, from state s.
ClickModalNextTimes(s, n) ==
    IF n = 0 THEN s
    ELSE ClickModalNextTimes(dispatchClick(s, Target("modal-nav-next", NoCard)), n - 1)

\* C2: for a card with N >= 2 images, prev at index 0 lands on N-1, next at
\* index N-1 lands on 0, and next applied N times returns to the index it
\* started from; likewise for the navigation of the modal.
C2_NavigationWraps ==
    /\ \A c \in Cards :
          Len(cards[c].images) >= 2 =>
            LET N == Len(cards[c].images) IN
            /\ CardIndex(c) = 0 =>
                  IndexTextOf(AfterClick("image-nav-prev", c), c)
                     = NumberToString(N - 1)
            /\ CardIndex(c) = N - 1 =>
                  IndexTextOf(AfterClick("image-nav-next", c), c) = <<"0">>
            /\ IndexTextOf(ClickCardNextTimes(St, c, N), c) = cards[c].currentIndex
    /\ (ModalHasList /\ Len(ModalImages) >= 2) =>
            LET N == Len(ModalImages) IN
            /\ ModalIndex = 0 =>
                  AfterClick("modal-nav-prev", NoCard).modalImage.currentIndex
                     = NumberToString(N - 1)
            /\ ModalIndex = N - 1 =>
                  AfterClick("modal-nav-next", NoCard).modalImage.currentIndex
                     = <<"0">>
            /\ ClickModalNextTimes(St, N).modalImage.currentIndex
                     = modalImage.currentIndex

\* The modal holds the list of the card that is bound to it.
Mirroring ==
    /\ currentModalCard # NoCard
    /\ CardHasList(currentModalCard)
    /\ ModalHasList
    /\ ModalImages = CardImages(currentModalCard)

\* C3: a card's own next/prev transition, fired while the modal is open and
\* mirroring that card, updates the modal in lock-step, so that in every state
\* where the modal is open and mirrors a card, the modal's index and image are
\* those of the card.
C3_ModalFollowsCard ==
    (modalActive /\ Mirroring) =>
        /\ modalImage.currentIndex = cards[currentModalCard].currentIndex
        /\ modalImage.src = cards[currentModalCard].src

\* The states a navigation step of the modal leads to: a click on one of its
\* arrows, a swipe on its image past the threshold, or a left/right arrow key
\* while it is open.
AfterModalNavigation ==
    { AfterClick(class, NoCard) : class \in {"modal-nav-prev", "modal-nav-next"} }
    \cup { AfterTouchEnd("modal-image", NoCard, x) :
             x \in { e \in EndCoords : Abs(modalTouchStartX - e) > modalSwipeThreshold } }
    \cup { AfterKeyDown(key) : key \in { k \in {"ArrowLeft", "ArrowRight"} : modalActive } }

C5_OpenCopiesCard ==
    [][\A c \in Cards :
         ClickMainImage(c) =>
           /\ currentModalCard' = c
           /\ modalActive'
           /\ CardHasList(c)
           /\ modalImage'.dataImages # Null
           /\ JSONParse(modalImage'.dataImages).ok
           /\ JSONParse(modalImage'.dataImages).val = CardImages(c)
           /\ modalImage'.currentIndex = cards[c].currentIndex
           /\ modalImage'.src = cards[c].fullImage
           /\ LET shown == Len(CardImages(c)) > 1 IN
              /\ (modalNavPrev' # "none") <=> shown
              /\ (modalNavNext' # "none") <=> shown
              /\ (modalCounter'.display # "none") <=> shown
      ]_vars

\* The states a closing step leads to: a click on the close button, a click
\* on the backdrop itself, or the Escape key while the modal is open.
AfterModalClose ==
    { AfterClick(class, NoCard) : class \in {"modal-close", "modal-overlay"} }
    \cup { AfterKeyDown(key) : key \in { k \in {"Escape"} : modalActive } }

\* C6: each of the three closing steps leaves the modal inactive, the card
\* reference released and page scrolling restored, and changes no card.
C6_CloseReleases ==
    \A t \in AfterModalClose :
        /\ ~t.modalActive
        /\ t.currentModalCard = NoCard
        /\ t.bodyOverflow = ""
        /\ t.cards = cards

\* C6's case: the modal has been opened and closed again, and a card still
\* stands at the index it was navigated to.
C6_Witness ==
    /\ ~modalActive
    /\ currentModalCard = NoCard
    /\ bodyOverflow = ""
    /\ ModalHasList
    /\ ModalIndex >= 1
    /\ \E c \in Cards : CardHasList(c) /\ CardIndex(c) = ModalIndex
                          /\ CardImages(c) = ModalImages

\* C7: in every reachable state a card is bound to the modal exactly when the
\* modal is open, and page scrolling is locked exactly then.
C7_BoundIffOpen ==
    /\ (currentModalCard # NoCard) <=> modalActive
    /\ (bodyOverflow = "hidden") <=> modalActive

\* C8: a click on a card's arrow button opens nothing: the modal's state and
\* binding, the touch coordinates and every other card stay as they were, and
\* of the clicked card only the index and what shows it may change.
C8_ArrowClickKeepsModal ==
    \A c \in Cards, class \in {"image-nav-prev", "image-nav-next"} :
        cards[c].nav =>
            LET t == AfterClick(class, c) IN
            /\ [t EXCEPT !.cards = cards] = St
            /\ \A d \in Cards \ {c} : t.cards[d] = cards[d]
            /\ [t.cards[c] EXCEPT !.currentIndex = cards[c].currentIndex,
                                  !.src = cards[c].src,
                                  !.fullImage = cards[c].fullImage,
                                  !.counter = cards[c].counter] = cards[c]

\* C8's case: before any opening and any touch, an arrow click has moved a
\* card off its first image, and the modal is still closed and unbound.
C8_Witness ==
    /\ ~modalActive
    /\ currentModalCard = NoCard
    /\ modalImage.dataImages = Null
    /\ touchStartX = 0 /\ touchEndX = 0
    /\ modalTouchStartX = 0 /\ modalTouchEndX = 0
    /\ \E c \in Cards : CardHasList(c) /\ CardIndex(c) = 1
                          /\ cards[c].src = CardImages(c)[2]

\* The coordinates a touch is tried at.
TouchCoords == StartCoords \cup EndCoords

\* The index text the step from index i of a list of n leads to: the next
\* position for a leftward gesture, the previous one for a rightward one.
SwipedIndexText(i, n, diff) ==
    NumberToString(IF diff > 0 THEN (IF i = n - 1 THEN 0 ELSE i + 1)
                   ELSE (IF i = 0 THEN n - 1 ELSE i - 1))

\* C9: a touch gesture, on a card's image region while the modal is closed or
\* on the modal's image, changes an index only when |startX - endX| is more
\* than 50: the start of a touch and an end at a distance of 50 or less change
\* nothing but the recorded coordinate, and at a distance of more than 50 a
\* leftward gesture (startX > endX) is next and a rightward one is prev.
C9_SwipeThreshold ==
    /\ \A c \in Cards, x \in TouchCoords :
          (cards[c].container /\ ~modalActive) =>
            LET t    == AfterTouchEnd("item-main-image", c, x)
                diff == touchStartX - x
            IN  /\ AfterTouchStart("item-main-image", c, x)
                      = [St EXCEPT !.touchStartX = x]
                /\ Abs(diff) <= 50 => t = [St EXCEPT !.touchEndX = x]
                /\ Abs(diff) > 50 =>
                      t = navigateImage([St EXCEPT !.touchEndX = x], c,
                                        IF diff > 0 THEN 1 ELSE 0 - 1)
                /\ (Abs(diff) > 50 /\ CardHasList(c)) =>
                      t.cards[c].currentIndex
                         = SwipedIndexText(CardIndex(c), Len(CardImages(c)), diff)
    /\ \A x \in TouchCoords :
          LET t    == AfterTouchEnd("modal-image", NoCard, x)
              diff == modalTouchStartX - x
          IN  /\ AfterTouchStart("modal-image", NoCard, x)
                    = [St EXCEPT !.modalTouchStartX = x]
              /\ Abs(diff) <= 50 => t = [St EXCEPT !.modalTouchEndX = x]
              /\ Abs(diff) > 50 =>
                    t = navigateModalImage([St EXCEPT !.modalTouchEndX = x],
                                           IF diff > 0 THEN 1 ELSE 0 - 1)
              /\ (Abs(diff) > 50 /\ ModalHasList) =>
                    t.modalImage.currentIndex
                       = SwipedIndexText(ModalIndex, Len(ModalImages), diff)

\* C9's case: a touch on a card has ended at a distance of exactly 50 and a
\* card of two or more images still stands at index 0, while a leftward
\* gesture of 51 on the modal's image has moved the modal to index 1.
C9_Witness ==
    /\ Abs(touchStartX - touchEndX) = 50
    /\ modalTouchStartX - modalTouchEndX = 51
    /\ ModalHasList
    /\ ModalIndex = 1
    /\ \E c \in Cards : CardHasList(c) /\ Len(CardImages(c)) >= 2 /\ CardIndex(c) = 0

\* C10: a card with exactly one image is rendered without prev/next controls
\* and counter, and in every reachable state its index is 0 and its displayed
\* image is its only image.
C10_SingleImageCardFixed ==
    \A c \in Cards :
        Len(cards[c].images) = 1 =>
            /\ cards[c].singleImage
            /\ ~cards[c].nav
            /\ cards[c].counter = Null
            /\ cards[c].currentIndex = <<"0">>
            /\ cards[c].src = cards[c].images[1]
            /\ cards[c].fullImage = cards[c].images[1]

\* ---------------------------------------------------------------- parseCSV

\* What parseCSV comes to when lines[0] is undefined: lines[0].map throws.
TypeError == [ok |-> FALSE, error |-> "TypeError"]

\* currentLine.some(field => field.trim()).
SomeFieldNotBlank(line) == \E k \in 1..Len(line) : Trim(line[k]) # <<>>

RECURSIVE parseCSVLoopNoEscape(_, _, _)
\* A mutant of parseCSVLoop: a doubled quote inside quotes is not taken for a
\* quote character, every quote opens or closes.
parseCSVLoopNoEscape(text, i, st) ==
    IF i > Len(text) THEN st
    ELSE
      LET char == text[i]
          nextIs(ch) == i + 1 <= Len(text) /\ text[i + 1] = ch
      IN  IF char = DQ
          THEN parseCSVLoopNoEscape(text, i + 1, [st EXCEPT !.insideQuotes = ~@])
          ELSE IF char = "," /\ ~st.insideQuotes
          THEN parseCSVLoopNoEscape(text, i + 1,
                   [st EXCEPT !.currentLine = Append(@, st.currentField),
                              !.currentField = <<>>])
          ELSE IF char \in {"\n", "\r"} /\ ~st.insideQuotes
          THEN LET line == Append(st.currentLine, st.currentField)
                   step == IF char = "\r" /\ nextIs("\n") THEN 2 ELSE 1
               IN  parseCSVLoopNoEscape(text, i + step,
                       [st EXCEPT !.lines = IF SomeFieldNotBlank(line)
                                            THEN Append(@, line) ELSE @,
                                  !.currentLine = <<>>,
                                  !.currentField = <<>>])
          ELSE parseCSVLoopNoEscape(text, i + 1,
                   [st EXCEPT !.currentField = Append(@, char)])

RECURSIVE parseCSVLoop(_, _, _)
\* The for loop of parseCSV from position i (1-based), on the loop's
\* variables st.
parseCSVLoop(text, i, st) ==
    IF i > Len(text) THEN st
    ELSE
      LET char == text[i]
          nextIs(ch) == i + 1 <= Len(text) /\ text[i + 1] = ch
      IN  IF char = DQ
          THEN IF st.insideQuotes /\ nextIs(DQ)
               THEN parseCSVLoop(text, i + 2,
                        [st EXCEPT !.currentField = Append(@, DQ)])
               ELSE parseCSVLoop(text, i + 1,
                        [st EXCEPT !.insideQuotes = ~@])
          ELSE IF char = "," /\ ~st.insideQuotes
          THEN parseCSVLoop(text, i + 1,
                   [st EXCEPT !.currentLine = Append(@, st.currentField),
                              !.currentField = <<>>])
          ELSE IF char \in {"\n", "\r"} /\ ~st.insideQuotes
          THEN LET line == Append(st.currentLine, st.currentField)
                   step == IF char = "\r" /\ nextIs("\n") THEN 2 ELSE 1
               IN  parseCSVLoop(text, i + step,
                       [st EXCEPT !.lines = IF SomeFieldNotBlank(line)
                                            THEN Append(@, line) ELSE @,
                                  !.currentLine = <<>>,
                                  !.currentField = <<>>])
          ELSE parseCSVLoop(text, i + 1,
                   [st EXCEPT !.currentField = Append(@, char)])

\* The lines array of parseCSV once the last line is handled.
parseCSVLines(text) ==
    LET st == parseCSVLoop(text, 1, [lines |-> <<>>, currentLine |-> <<>>,
                                     currentField |-> <<>>, insideQuotes |-> FALSE])
    IN  IF st.currentField # <<>> \/ Len(st.currentLine) > 0
        THEN Append(st.lines, Append(st.currentLine, st.currentField))
        ELSE st.lines

\* A mutant of TrimmedHeaders: the headers as they are written.
TrimmedHeadersAsWritten(line) == line

\* lines[0].map(h => h.trim()).
TrimmedHeaders(line) == [k \in 1..Len(line) |-> Trim(line[k])]

\* The object a line becomes: obj[header] = line[index] || '' for each header
\* in turn, so that the last column of a repeated header stays.
RowObject(headers, line) ==
    [h \in {headers[k] : k \in 1..Len(headers)} |->
        LET index == CHOOSE k \in 1..Len(headers) :
                        /\ headers[k] = h
                        /\ \A j \in (k + 1)..Len(headers) : headers[j] # h
        IN  IF index <= Len(line) THEN line[index] ELSE <<>>]

\* parseCSV(csvText): the rows, or the TypeError of lines[0].map when no line
\* was kept.
parseCSV(text) ==
    LET lines == parseCSVLines(text) IN
    IF lines = <<>> THEN TypeError
    ELSE LET headers == TrimmedHeaders(lines[1]) IN
         [ok |-> TRUE,
          rows |-> [k \in 1..(Len(lines) - 1) |-> RowObject(headers, lines[k + 1])]]

\* ------------------------------------------------------- inputs of parseCSV

\* The longest of the texts that are tried character by character.
MaxCsvLen == 4

CsvChars == {"A", "1", " ", ",", "\n", "\r", DQ}

\* Every text of CsvChars up to MaxCsvLen characters.
ShortTexts == UNION { [1..n -> CsvChars] : n \in 0..MaxCsvLen }

\* The longest field value that is written between quotes.
MaxFieldLen == 3

\* The values written as quoted fields.
FieldValues ==
    UNION { [1..n -> {"a", ",", "\n", "\r", DQ}] : n \in 0..MaxFieldLen }

RECURSIVE DoubleQuotes(_)
\* v with every double quote doubled.
DoubleQuotes(v) ==
    IF v = <<>> THEN <<>>
    ELSE (IF Head(v) = DQ THEN <<DQ, DQ>> ELSE <<Head(v)>>) \o DoubleQuotes(Tail(v))

\* v written as a quoted field.
QuotedField(v) == <<DQ>> \o DoubleQuotes(v) \o <<DQ>>

\* A header line and a data line with v as a quoted field: the only field, with
\* and without a line terminator, and the second field after a plain one.
QuotedAlone(v) == <<"A", "\n">> \o QuotedField(v) \o <<"\n">>
QuotedAloneAtEnd(v) == <<"A", "\n">> \o QuotedField(v)
QuotedSecond(v) == <<"A", ",", "B", "\n", "1", ",">> \o QuotedField(v) \o <<"\n">>

QuotedTexts ==
    { QuotedAlone(v) : v \in FieldValues }
    \cup { QuotedAloneAtEnd(v) : v \in FieldValues }
    \cup { QuotedSecond(v) : v \in FieldValues }

\* Header lines and data lines as lists of unquoted fields; every data line
\* has a field that is not blank.
HeaderLines == {<<<<"A">>, <<"B">>>>, <<<<" ", "A">>, <<"B", " ">>>>, <<<<"A">>>>}

DataLines ==
    {<<<<"1">>, <<"2">>>>, <<<<"3">>>>, <<<<"1">>, <<"2">>, <<"3">>>>,
     <<<<>>, <<"2">>>>}

DataLineLists == UNION { [1..n -> DataLines] : n \in 1..2 }

\* The text of a header line and data lines, each line ended by \n.
RaggedText(header, dataLines) ==
    JoinWith(header, <<",">>) \o <<"\n">>
    \o Concat([k \in 1..Len(dataLines) |->
                  JoinWith(dataLines[k], <<",">>) \o <<"\n">>])

RaggedTexts ==
    { RaggedText(h, ls) : h \in HeaderLines, ls \in DataLineLists }

CsvTexts == ShortTexts \cup QuotedTexts \cup RaggedTexts

\* The gallery before any card is rendered and the modal as createModal
\* leaves it.
GalleryAtRest ==
    /\ cards = <<>>
    /\ modalActive = FALSE
    /\ bodyOverflow = ""
    /\ currentModalCard = NoCard
    /\ modalImage = [src |-> <<>>, dataImages |-> Null, currentIndex |-> Null]
    /\ modalCounter = [text |-> <<>>, display |-> ""]
    /\ modalNavPrev = ""
    /\ modalNavNext = ""
    /\ touchStartX = 0
    /\ touchEndX = 0
    /\ modalTouchStartX = 0
    /\ modalTouchEndX = 0

\* parseCSV is about to be applied to a text.
InitCSV ==
    /\ GalleryAtRest
    /\ pc = "parseCSV"
    /\ csvText \in CsvTexts
    /\ result = Null
    /\ fetchCalls = 0
    /\ response = Null
    /\ rawItem = Null
    /\ item = Null
    /\ grid = Null
    /\ uncaught = FALSE
    /\ ScriptNotRun

\* parseCSV(csvText) is applied.
ParseCSV ==
    /\ pc = "parseCSV"
    /\ result' = parseCSV(csvText)
    /\ pc' = "parsed"
    /\ UNCHANGED <<galleryVars, fetchCalls, response, csvText, rawItem, item,
                   grid, uncaught, scriptVars>>

NextCSV == ParseCSV

SpecCSV == InitCSV /\ [][NextCSV]_vars

\* ------------------------------------------------------------ normalizeItem

\* x || d for a value that is a text or missing.
OrElse(x, d) == IF x = Null \/ x = <<>> THEN d ELSE x

\* rawItem[key]: undefined, read here as Null, for a key the row has not.
Get(obj, key) == IF key \in DOMAIN obj THEN obj[key] ELSE Null

UpperCase == <<"A", "B", "C", "D", "E", "F", "G", "H", "I", "J", "K", "L", "M",
               "N", "O", "P", "Q", "R", "S", "T", "U", "V", "W", "X", "Y", "Z">>
LowerCase == <<"a", "b", "c", "d", "e", "f", "g", "h", "i", "j", "k", "l", "m",
               "n", "o", "p", "q", "r", "s", "t", "u", "v", "w", "x", "y", "z">>

\* String.prototype.toLowerCase.
ToLowerCase(t) ==
    [k \in 1..Len(t) |->
        IF \E j \in 1..26 : UpperCase[j] = t[k]
        THEN LowerCase[CHOOSE j \in 1..26 : UpperCase[j] = t[k]]
        ELSE t[k]]

\* The column names normalizeItem reads.
KeyItem == <<"I", "t", "e", "m">>
KeyNewPrice == <<"N", "e", "w", " ", "p", "r", "i", "c", "e">>
KeyAskingPrice == <<"A", "s", "k", "i", "n", "g", " ", "p", "r", "i", "c", "e">>
KeyAvailable == <<"A", "v", "a", "i", "l", "a", "b", "l", "e">>
KeyImages == <<"I", "m", "a", "g", "e", "s">>
KeyNotes == <<"N", "o", "t", "e", "s">>
KeyStatus == <<"S", "t", "a", "t", "u", "s">>

UnknownPrice == <<"?", "?", "?">>

\* A mutant of cleanPrice: "???" is a price like any other.
cleanPriceNoSentinel(price) ==
    LET cleaned == Trim(OrElse(price, <<>>)) IN
    IF cleaned = <<>> THEN Null ELSE cleaned

\* cleanPrice(price).
cleanPrice(price) ==
    LET cleaned == Trim(OrElse(price, <<>>)) IN
    IF cleaned = <<>> \/ cleaned = UnknownPrice THEN Null ELSE cleaned

\* normalizeItem(rawItem).
normalizeItem(raw) ==
    [name        |-> OrElse(Get(raw, KeyItem), <<"U", "n", "n", "a", "m", "e", "d", " ", "I", "t", "e", "m">>),
     newPrice    |-> cleanPrice(Get(raw, KeyNewPrice)),
     askingPrice |-> cleanPrice(Get(raw, KeyAskingPrice)),
     available   |-> OrElse(Get(raw, KeyAvailable), <<>>),
     images      |-> parseImages(Get(raw, KeyImages)),
     notes       |-> OrElse(Get(raw, KeyNotes), <<>>),
     sold        |-> Trim(ToLowerCase(OrElse(Get(raw, KeyStatus), <<>>))) = <<"s", "o", "l", "d">>]

\* ---------------------------------------------------------------- markup
\*
\* A markup text is a sequence of pieces: the characters of inserted values,
\* one piece each, and the literal parts of the templates, one piece per
\* stretch, except that the quote that closes an attribute is a piece of its
\* own, as it is the character the HTML parser looks for.  The text itself is
\* the pieces put end to end.

\* A mutant of escapeHtml: only & is written as an entity.
escapeHtmlAmpOnly(text) ==
    [k \in 1..Len(text) |-> IF text[k] = "&" THEN "&amp;" ELSE text[k]]

\* escapeHtml(text): div.textContent = text; div.innerHTML.  The serializer
\* writes &amp; &lt; &gt; for & < > in a text node and leaves the quotes.
escapeHtml(text) ==
    [k \in 1..Len(text) |->
        IF text[k] = "&" THEN "&amp;"
        ELSE IF text[k] = "<" THEN "&lt;"
        ELSE IF text[k] = ">" THEN "&gt;"
        ELSE text[k]]

\* formatAvailability(available).
formatAvailability(available) ==
    IF available = Null \/ available = <<>> \/ available = UnknownPrice
       \/ Trim(available) = <<>>
    THEN Null
    ELSE IF ToLowerCase(available) = <<"n", "o", "w">> THEN <<"Available now">>
    ELSE <<"Available ">> \o available

\* The pieces that open the attributes of the image container's markup.
DataImagesOpen == "\n            <div class=\"item-image-container\" data-images='"
SrcOpen == ">\n                <img src=\""
AltOpen == "\n                     alt=\""
FullImageOpen == "\n                     class=\"item-image item-main-image\"\n                     data-full-image=\""

\* renderImageContainer(item).  The arrows of the buttons are written U+2039
\* and U+203A here.
renderImageContainer(it) ==
    IF Len(it.images) = 0 THEN <<>>
    ELSE
      LET mainImage == it.images[1]
          navigationHTML ==
              IF Len(it.images) > 1
              THEN <<"<button class=\"image-nav-prev\" aria-label=\"Previous image\">U+2039</button>\n               <button class=\"image-nav-next\" aria-label=\"Next image\">U+203A</button>\n               <div class=\"image-counter\">1 / ">>
                   \o NumberToString(Len(it.images))
                   \o <<"</div>">>
              ELSE <<>>
      IN  <<DataImagesOpen>> \o JSONStringify(it.images) \o <<SQ>>
          \o <<SrcOpen>> \o mainImage \o <<DQ>>
          \o <<AltOpen>> \o escapeHtml(it.name) \o <<DQ>>
          \o <<FullImageOpen>> \o mainImage \o <<DQ>>
          \o <<"\n                     data-current-index=\"0\">\n                ">>
          \o navigationHTML
          \o <<"\n            </div>\n        ">>

NameOpen == "\n            <div class=\"item-details\">\n                <h2 class=\"item-name\">"
NameClose == "</h2>\n                "

\* renderItemDetails(item).
renderItemDetails(it) ==
    LET priceHTML ==
            IF it.askingPrice # Null
            THEN <<"<div class=\"item-price\">">> \o it.askingPrice \o <<" AED</div>">>
            ELSE <<"<div class=\"item-price unavailable\">Contact for price</div>">>
        originalPriceHTML ==
            IF it.newPrice # Null
            THEN <<"<div class=\"item-original-price\">New: ">> \o it.newPrice
                 \o <<" AED</div>">>
            ELSE <<>>
        descriptionHTML ==
            IF it.notes # <<>>
            THEN <<"<p class=\"item-description\">">> \o escapeHtml(it.notes) \o <<"</p>">>
            ELSE <<>>
        availabilityText == formatAvailability(it.available)
        availabilityHTML ==
            IF availabilityText # Null
            THEN <<"<span class=\"item-availability\">">> \o availabilityText
                 \o <<"</span>">>
            ELSE <<>>
    IN  <<NameOpen>> \o escapeHtml(it.name) \o <<NameClose>>
        \o priceHTML \o <<"\n                ">>
        \o originalPriceHTML \o <<"\n                ">>
        \o descriptionHTML \o <<"\n                ">>
        \o availabilityHTML \o <<"\n            </div>\n        ">>

\* The markup renderItemCard(item) returns.
renderItemCardMarkup(it) ==
    <<"\n            <div class=\"item-card">>
    \o (IF it.sold THEN <<" sold">> ELSE <<>>)
    \o (IF Len(it.images) <= 1 THEN <<" single-image">> ELSE <<>>)
    \o <<DQ>> \o <<">\n                ">>
    \o renderImageContainer(it)
    \o <<"\n                ">>
    \o renderItemDetails(it)
    \o <<"\n            </div>\n        ">>

\* ------------------------------------------- normalizing and rendering a row

\* The columns of the sheet, in the order of the values of RawRow.
Columns ==
    <<KeyItem, KeyNewPrice, KeyAskingPrice, KeyAvailable, KeyImages, KeyNotes,
      KeyStatus>>

\* The row object with the given values; Null for a column the sheet has not.
RawRow(values) ==
    [key \in { Columns[j] : j \in { i \in 1..Len(Columns) : values[i] # Null } } |->
        values[CHOOSE j \in 1..Len(Columns) : Columns[j] = key]]

\* The longest price that is tried character by character.
MaxPriceLen == 5

PriceTexts == UNION { [1..n -> {"1", " ", "?"}] : n \in 0..MaxPriceLen }

\* The longest name that is tried character by character.
MaxNameLen == 3

\* <img src=x onerror=alert(1)>
ImgName ==
    <<"<", "i", "m", "g", " ", "s", "r", "c", "=", "x", " ", "o", "n", "e",
      "r", "r", "o", "r", "=", "a", "l", "e", "r", "t", "(", "1", ")", ">">>

NameTexts ==
    UNION { [1..n -> {"a", "<", ">", "&", DQ, SQ}] : n \in 0..MaxNameLen }
    \cup {ImgName}

\* Values of a text column when all the text columns vary together.
SmallTexts == {Null, <<"a">>, <<"<">>, <<"&", ">">>}

\* The rows that are normalized and rendered: every asking price under a
\* plain name, every name with every Images column, and the text columns
\* varying together over a card with one image.
RawItems ==
    { RawRow(<<<<"a">>, Null, p, Null, Null, Null, Null>>) :
        p \in PriceTexts \cup {Null} }
    \cup { RawRow(<<n, Null, Null, Null, imgs, Null, Null>>) :
             n \in NameTexts, imgs \in ImagesFields }
    \cup { RawRow(<<n, np, ap, av, <<"a">>, nt, st>>) :
             n \in SmallTexts, np \in SmallTexts, ap \in SmallTexts,
             av \in SmallTexts, nt \in SmallTexts,
             st \in {Null, <<"S", "o", "l", "d">>} }

\* A row of the sheet is about to be normalized.
InitRender ==
    /\ GalleryAtRest
    /\ pc = "normalize"
    /\ rawItem \in RawItems
    /\ item = Null
    /\ grid = Null
    /\ csvText = Null
    /\ result = Null
    /\ fetchCalls = 0
    /\ response = Null
    /\ uncaught = FALSE
    /\ ScriptNotRun

\* normalizeItem(rawItem).
NormalizeItem ==
    /\ pc = "normalize"
    /\ item' = normalizeItem(rawItem)
    /\ pc' = "render"
    /\ UNCHANGED <<galleryVars, fetchCalls, response, csvText, result, rawItem,
                   grid, uncaught, scriptVars>>

\* renderItemCard(item): the markup of the card.
RenderItemCard ==
    /\ pc = "render"
    /\ grid' = renderItemCardMarkup(item)
    /\ pc' = "rendered"
    /\ UNCHANGED <<galleryVars, fetchCalls, response, csvText, result, rawItem,
                   item, uncaught, scriptVars>>

NextRender == NormalizeItem \/ RenderItemCard

SpecRender == InitRender /\ [][NextRender]_vars

\* ------------------------------------------------------------- loadProducts

\* The fixed message of the catch block, one piece.
ErrorMessage == <<"\n                <div style=\"grid-column: 1 / -1; text-align: center; color: white; padding: 40px;\">\n                    <p style=\"font-size: 1.2em; margin-bottom: 10px;\">Unable to load products.</p>\n                    <p>Please refresh the page or contact us via WhatsApp.</p>\n                </div>\n            ">>

\* .items-grid as the page has it before loadProducts writes it.
InitialGrid == <<>>

\* response.ok: a status of 200 to 299.
ResponseOk(r) == r.kind = "response" /\ r.status \in 200..299

\* The part of the state loadProducts reads and writes, as one value.
Ld ==
    [pc |-> pc, fetchCalls |-> fetchCalls, response |-> response,
     csvText |-> csvText, grid |-> grid, uncaught |-> uncaught]

\* The step of loadProducts to l.
LoadBecomes(l) ==
    \E t \in {l} :
        /\ pc' = t.pc
        /\ fetchCalls' = t.fetchCalls
        /\ response' = t.response
        /\ csvText' = t.csvText
        /\ grid' = t.grid
        /\ uncaught' = t.uncaught
        /\ UNCHANGED <<galleryVars, result, rawItem, item, scriptVars>>

\* catch (error): the message replaces the grid's content.
catchBlock(l) == [l EXCEPT !.grid = ErrorMessage, !.pc = "done"]

\* loadProducts() up to its first await: fetch is called.
callFetch(l) == [l EXCEPT !.fetchCalls = @ + 1, !.pc = "awaitFetch"]

\* A mutant of fetchSettled: response.ok is not looked at.
fetchSettledUnchecked(l, r) ==
    LET got == [l EXCEPT !.response = r] IN
    IF r.kind = "rejected" THEN catchBlock(got)
    ELSE [got EXCEPT !.pc = "awaitText"]

\* The fetch has settled with r: a rejection and a response that is not ok
\* end in the catch block, otherwise response.text() is awaited.
fetchSettled(l, r) ==
    LET got == [l EXCEPT !.response = r] IN
    IF r.kind = "rejected" THEN catchBlock(got)
    ELSE IF ~ResponseOk(r) THEN catchBlock(got)
    ELSE [got EXCEPT !.pc = "awaitText"]

\* items.map(renderItemCard).join('').
renderItems(items) ==
    Concat([k \in 1..Len(items) |-> renderItemCardMarkup(items[k])])

\* response.text() has resolved with text: the rows are parsed, normalized and
\* rendered into the grid; the TypeError of parseCSV ends in the catch block.
textResolved(l, text) ==
    LET got    == [l EXCEPT !.csvText = text]
        parsed == parseCSV(text)
    IN  IF ~parsed.ok THEN catchBlock(got)
        ELSE LET items == [k \in 1..Len(parsed.rows) |-> normalizeItem(parsed.rows[k])]
             IN  [got EXCEPT !.grid = renderItems(items), !.pc = "done"]

\* response.text() has rejected.
textRejected(l) == catchBlock(l)

\* --------------------------------------------------- inputs of loadProducts

\* The HTTP statuses a response may carry.
Statuses == {200, 404, 500}

FetchOutcomes ==
    {[kind |-> "rejected"]} \cup {[kind |-> "response", status |-> n] : n \in Statuses}

\* The texts data/data.csv may hold: up to MaxLoadTokens of these tokens.
MaxLoadTokens == 4

LoadTokens == {KeyItem, <<",">>, <<"\n">>, <<DQ>>, <<"a">>, <<" ">>}

LoadTexts == { Concat(ts) : ts \in UNION { [1..n -> LoadTokens] : n \in 0..MaxLoadTokens } }

\* init() is about to call loadProducts().
InitLoad ==
    /\ GalleryAtRest
    /\ pc = "start"
    /\ fetchCalls = 0
    /\ response = [kind |-> "none"]
    /\ csvText = Null
    /\ grid = InitialGrid
    /\ uncaught = FALSE
    /\ result = Null
    /\ rawItem = Null
    /\ item = Null
    /\ ScriptNotRun

\* loadProducts() is called and runs to its first await.
CallLoadProducts ==
    /\ pc = "start"
    /\ LoadBecomes(callFetch(Ld))

\* The fetch settles.
FetchSettles(r) ==
    /\ pc = "awaitFetch"
    /\ LoadBecomes(fetchSettled(Ld, r))

\* response.text() resolves.
TextResolves(text) ==
    /\ pc = "awaitText"
    /\ LoadBecomes(textResolved(Ld, text))

\* response.text() rejects.
TextRejects ==
    /\ pc = "awaitText"
    /\ LoadBecomes(textRejected(Ld))

NextLoad ==
    \/ CallLoadProducts
    \/ \E r \in FetchOutcomes : FetchSettles(r)
    \/ \E text \in LoadTexts : TextResolves(text)
    \/ TextRejects

SpecLoad == InitLoad /\ [][NextLoad]_vars

\* The fetch has failed: it rejected, or its response is not ok.
FetchFailed == response.kind = "rejected" \/ (response.kind = "response" /\ ~ResponseOk(response))

\* C11: once the fetch has rejected or returned a status that is not a
\* success, loadProducts has ended with the grid holding exactly the fixed
\* message (no card), no text was read, fetch was called once, and no
\* exception has left loadProducts.
C11_FetchFailureShowsMessage ==
    /\ fetchCalls <= 1
    /\ ~uncaught
    /\ FetchFailed =>
          /\ pc = "done"
          /\ grid = ErrorMessage
          /\ csvText = Null
          /\ fetchCalls = 1

\* C11's case: the fetch has returned 404 and loadProducts has ended.
C11_Witness ==
    /\ pc = "done"
    /\ response = [kind |-> "response", status |-> 404]
    /\ grid = ErrorMessage
    /\ fetchCalls = 1

\* C12: for every text that was fetched with success, whatever it holds,
\* loadProducts ends with the cards of the parsed rows in the grid and never
\* with the message of the fetch failure.
C12_OnlyFetchFailureShowsMessage ==
    (pc = "done" /\ ResponseOk(response) /\ csvText # Null) =>
        /\ grid # ErrorMessage
        /\ ~uncaught

\* parseCSV has returned one row and its value for the column is v.
OneRowWith(column, v) ==
    /\ result.ok
    /\ Len(result.rows) = 1
    /\ column \in DOMAIN result.rows[1]
    /\ result.rows[1][column] = v

\* v has a character that is no white space.
NotBlank(v) == Trim(v) # <<>>

\* C13 as stated: for any field value v over the comma, \n, \r and the double
\* quote, a data line whose field is v between quotes, with every quote of v
\* doubled, parsed after a header line, yields a row whose value for that
\* column is exactly v.
C13_RoundTripAnyValue ==
    (pc = "parsed" /\ csvText \in QuotedTexts) =>
        \A v \in FieldValues :
            /\ csvText = QuotedAlone(v) => OneRowWith(<<"A">>, v)
            /\ csvText = QuotedAloneAtEnd(v) => OneRowWith(<<"A">>, v)
            /\ csvText = QuotedSecond(v) => OneRowWith(<<"B">>, v)

\* C13 amended: the same for a v that has a character other than white space,
\* or that stands in a data line with another field that has one.
C13_RoundTripNotBlank ==
    (pc = "parsed" /\ csvText \in QuotedTexts) =>
        \A v \in FieldValues :
            /\ (csvText = QuotedAlone(v) /\ NotBlank(v)) => OneRowWith(<<"A">>, v)
            /\ (csvText = QuotedAloneAtEnd(v) /\ NotBlank(v)) => OneRowWith(<<"A">>, v)
            /\ csvText = QuotedSecond(v) => OneRowWith(<<"B">>, v)

\* C13's case: a value with a quote, a comma and a line feed has been written
\* between quotes and parsed back.
C13_Witness ==
    /\ pc = "parsed"
    /\ csvText = QuotedAlone(<<DQ, ",", "\n">>)
    /\ OneRowWith(<<"A">>, <<DQ, ",", "\n">>)

\* The row of a data line under a header line, as C14 has it: the keys are
\* the trimmed header values, a key takes the field at its place, the empty
\* string when the line has no such field.
RowIsMapped(row, header, line) ==
    /\ DOMAIN row = { Trim(header[j]) : j \in 1..Len(header) }
    /\ \A j \in 1..Len(header) :
          row[Trim(header[j])] = IF j <= Len(line) THEN line[j] ELSE <<>>

\* "A,B\n1,2\n3\n" and its rows {A:"1",B:"2"}, {A:"3",B:""}.
HeaderMappingExample == <<"A", ",", "B", "\n", "1", ",", "2", "\n", "3", "\n">>

HeaderMappingRows ==
    << (<<"A">> :> <<"1">>) @@ (<<"B">> :> <<"2">>),
       (<<"A">> :> <<"3">>) @@ (<<"B">> :> <<>>) >>

\* C14: every row parseCSV returns has exactly the trimmed header values as
\* its keys; a data line with fewer fields than the header maps each missing
\* trailing key to the empty string, one with more fields loses the extras,
\* and the rows come in input order; "A,B\n1,2\n3\n" yields {A:"1",B:"2"}
\* then {A:"3",B:""}.
C14_HeaderMapping ==
    (pc = "parsed") =>
        /\ result.ok =>
              \A k \in 1..Len(result.rows) :
                  DOMAIN result.rows[k] =
                      { Trim(h) : h \in { parseCSVLines(csvText)[1][j] :
                                          j \in 1..Len(parseCSVLines(csvText)[1]) } }
        /\ csvText \in RaggedTexts =>
              \A header \in HeaderLines, dataLines \in DataLineLists :
                  csvText = RaggedText(header, dataLines) =>
                      /\ result.ok
                      /\ Len(result.rows) = Len(dataLines)
                      /\ \A k \in 1..Len(dataLines) :
                            RowIsMapped(result.rows[k], header, dataLines[k])
        /\ csvText = HeaderMappingExample =>
              (result.ok /\ result.rows = HeaderMappingRows)

\* C14's case: the example has been parsed; its second data line is one
\* field short of the header.
C14_Witness ==
    /\ pc = "parsed"
    /\ csvText = HeaderMappingExample
    /\ result.ok
    /\ result.rows = HeaderMappingRows

\* A text without quotes whose lines end with \n only.
IsPlainText(text) == \A i \in 1..Len(text) : text[i] \notin {DQ, "\r"}

\* A line all of whose fields are empty or white space.
IsBlankLine(line) ==
    \A j \in 1..Len(Split(line, ",")) : Trim(Split(line, ",")[j]) = <<>>

\* The lines of a plain text that are not blank, the last one with or without
\* its \n.
NonBlankLines(text) ==
    LET all == Split(text, "\n")
    IN  { k \in 1..Len(all) : ~IsBlankLine(all[k]) }

\* C15: a line all of whose fields are empty or white space after trimming
\* produces no row, wherever it stands and whether or not a line terminator
\* follows it: the number of rows is the number of non-blank lines after the
\* header.
C15_BlankLinesDropped ==
    (pc = "parsed" /\ IsPlainText(csvText) /\ NonBlankLines(csvText) # {}) =>
        /\ result.ok
        /\ Len(result.rows) = Cardinality(NonBlankLines(csvText)) - 1

\* The state of parseCSV's loop when the text has been read.
AtEndOfInput(text) ==
    parseCSVLoop(text, 1, [lines |-> <<>>, currentLine |-> <<>>,
                           currentField |-> <<>>, insideQuotes |-> FALSE])

\* The text ends while a quote is open.
EndsInsideQuotes(text) == AtEndOfInput(text).insideQuotes

\* C16: for an input that ends while a quote is open, a single quote
\* character included, parseCSV returns rows and does not throw; the end of
\* the input closes the quote and the field, and the text gathered so far is
\* the last field of the last line.
C16_UnterminatedQuote ==
    (pc = "parsed" /\ EndsInsideQuotes(csvText)) =>
        /\ result.ok
        /\ parseCSVLines(csvText) # <<>>
        /\ LET lines == parseCSVLines(csvText)
               last == lines[Len(lines)]
           IN  last[Len(last)] = AtEndOfInput(csvText).currentField

\* The 'Asking price' of the row, Null when the row has no such column.
AskingPriceInput == Get(rawItem, KeyAskingPrice)

Normalized == pc \in {"render", "rendered"}

\* C17 as stated: normalizeItem yields a null askingPrice when the 'Asking
\* price' input is "", "???" or the column is missing, and for every other
\* input the askingPrice is that string, character for character.
C17_SentinelOrAsIs ==
    Normalized =>
        item.askingPrice =
            IF AskingPriceInput \in {Null, <<>>, UnknownPrice} THEN Null
            ELSE AskingPriceInput

\* t is p without the white space at its two ends.
StrippedOf(t, p) ==
    \E i \in 1..(Len(p) + 1), j \in 0..Len(p) :
        /\ t = SubSeq(p, i, j)
        /\ \A k \in 1..Len(p) : (k < i \/ k > j) => IsSpace(p[k])
        /\ t # <<>> => (~IsSpace(t[1]) /\ ~IsSpace(t[Len(t)]))

\* C17 amended: the askingPrice is null when the 'Asking price' input,
\* leading and trailing white space apart, is "" or "???" or the column is
\* missing; for every other input it is the input without its leading and
\* trailing white space, character for character.
C17_SentinelOrStripped ==
    Normalized =>
        IF AskingPriceInput = Null THEN item.askingPrice = Null
        ELSE IF StrippedOf(<<>>, AskingPriceInput)
                \/ StrippedOf(UnknownPrice, AskingPriceInput)
        THEN item.askingPrice = Null
        ELSE /\ item.askingPrice # Null
             /\ StrippedOf(item.askingPrice, AskingPriceInput)

\* C17's case: a row with " ??? " for a price has been normalized to no
\* price.
C17_Witness ==
    /\ Normalized
    /\ AskingPriceInput = <<" ", "?", "?", "?", " ">>
    /\ item.askingPrice = Null

Rendered == pc = "rendered"

\* The characters of field values that stand unescaped in a markup text: the
\* one-character pieces that are < > or &, which no template has by itself.
UnescapedMarkupChars(markup) ==
    { k \in 1..Len(markup) : markup[k] \in {"<", ">", "&"} }

\* C18: every text field of an item that the card's markup takes in (name,
\* notes, asking price, new price, availability) is HTML-escaped: no < > or &
\* of a field value stands unescaped in the rendered card.
C18_TextFieldsEscaped ==
    Rendered => UnescapedMarkupChars(grid) = {}

\* The n pieces of a markup text that follow the piece open.
PiecesAfter(markup, open, n) ==
    LET k == CHOOSE i \in 1..Len(markup) : markup[i] = open
    IN  SubSeq(markup, k + 1, k + n)

\* Every < and > of the text is written &lt; and &gt; at its place in the
\* pieces.
BracketsEscaped(text, pieces) ==
    /\ Len(pieces) = Len(text)
    /\ \A k \in 1..Len(text) :
          /\ text[k] = "<" => pieces[k] = "&lt;"
          /\ text[k] = ">" => pieces[k] = "&gt;"
          /\ pieces[k] \notin {"<", ">"}

\* The card has an image, and so an alt attribute.
HasImage == Len(item.images) > 0

\* C19: a name with markup in it, such as <img src=x onerror=alert(1)>,
\* renders with every < and > of the name escaped, in the text of the heading
\* and in the alt attribute of the image.
C19_NameBracketsEscaped ==
    Rendered =>
        /\ BracketsEscaped(item.name,
                           PiecesAfter(grid, NameOpen, Len(item.name)))
        /\ PiecesAfter(grid, NameOpen, Len(item.name) + 1)[Len(item.name) + 1]
              = NameClose
        /\ HasImage =>
              BracketsEscaped(item.name,
                              PiecesAfter(grid, AltOpen, Len(item.name)))

\* C19's case: the card of an item named <img src=x onerror=alert(1)> with an
\* image has been rendered.
C19_Witness ==
    /\ Rendered
    /\ item.name = ImgName
    /\ HasImage
    /\ PiecesAfter(grid, NameOpen, 4) = <<"&lt;", "i", "m", "g">>
    /\ PiecesAfter(grid, AltOpen, Len(ImgName))[Len(ImgName)] = "&gt;"

\* The pieces of a markup text that follow the piece open.
RestAfter(markup, open) ==
    LET k == CHOOSE i \in 1..Len(markup) : markup[i] = open
    IN  SubSeq(markup, k + 1, Len(markup))

\* The characters the HTML parser reads from escaped pieces.
HtmlDecode(pieces) ==
    [k \in 1..Len(pieces) |->
        IF pieces[k] = "&amp;" THEN "&"
        ELSE IF pieces[k] = "&lt;" THEN "<"
        ELSE IF pieces[k] = "&gt;" THEN ">"
        ELSE pieces[k]]

\* The values the HTML parser gives the alt and data-images attributes of the
\* card's markup.
AltValue(markup) == HtmlDecode(QuotedAttrValue(RestAfter(markup, AltOpen), DQ))
DataImagesValue(markup) == QuotedAttrValue(RestAfter(markup, DataImagesOpen), SQ)

\* C20: no attribute-breaking character of user text passes unescaped into an
\* attribute value of the rendered card: a double quote in the item name does
\* not end the alt attribute, whose value is the name, and a single quote in
\* an image file name does not end the data-images attribute, whose value is
\* the list of the images.
C20_AttributesNotBroken ==
    (Rendered /\ HasImage) =>
        /\ AltValue(grid) = item.name
        /\ DataImagesValue(grid) = JSONStringify(item.images)

\* ------------------------------------------------------ compress-images.sh
\*
\* The file holds two script bodies, one after the other.  bash reads a
\* script command by command and runs each command as soon as it has read it,
\* so the second body runs after the first unless an exit ends the script.

\* "$1": the first argument, empty when there is none.
Param1(args) == IF Len(args) >= 1 THEN args[1] ELSE ""

\* The paths of the file system: one directory, photos, and one regular file.
IsDirectory(path) == path = "photos"

ArgumentLists ==
    {<<>>, <<"">>, <<"photos">>, <<"list.txt">>, <<"nowhere">>,
     <<"photos", "extra">>}

\* File names as base and extension.
FileNames == {<<"a", "jpg">>, <<"b", "JPEG">>, <<"c", "png">>, <<"d", "txt">>}

Originals == <<"originals", "">>

\* -iname "*.jpg" -o -iname "*.jpeg", and -iname "*.png".
IsJpegName(name) == name[2] \in {"jpg", "JPG", "jpeg", "JPEG"}
IsPngName(name) == name[2] \in {"png", "PNG"}

\* The JPEG files and the PNG files still to be processed by the first body.
JpegsLeft ==
    { f \in DOMAIN folderFiles : IsJpegName(f) /\ folderFiles[f] = "original" }
PngsLeft ==
    { f \in DOMAIN folderFiles : IsPngName(f) /\ folderFiles[f] = "original" }

\* The script is started with some arguments on a folder of files.
InitScript ==
    /\ GalleryAtRest
    /\ pc = "line 12"
    /\ arguments \in ArgumentLists
    /\ folderFiles \in UNION { [names -> {"original"}] : names \in SUBSET FileNames }
    /\ backupFiles = {}
    /\ exitCode = Running
    /\ fetchCalls = 0
    /\ response = Null
    /\ csvText = Null
    /\ result = Null
    /\ rawItem = Null
    /\ item = Null
    /\ grid = Null
    /\ uncaught = FALSE

\* exit n.
Exit(n) == pc' = "exited" /\ exitCode' = n

\* Lines 12-16 and 144-148: if [ -z "$1" ]; then ... exit 1.
CheckArgument ==
    /\ pc \in {"line 12", "line 144"}
    /\ IF Param1(arguments) = "" THEN Exit(1)
       ELSE /\ pc' = (IF pc = "line 12" THEN "line 20" ELSE "line 152")
            /\ UNCHANGED exitCode
    /\ UNCHANGED <<galleryVars, fetchCalls, response, csvText, result, rawItem,
                   item, grid, uncaught, arguments, folderFiles, backupFiles>>

\* Lines 18-23 and 150-155: FOLDER="$1"; if [ ! -d "$FOLDER" ]; then ... exit 1.
CheckDirectory ==
    /\ pc \in {"line 20", "line 152"}
    /\ IF ~IsDirectory(Param1(arguments)) THEN Exit(1)
       ELSE /\ pc' = (IF pc = "line 20" THEN "line 31" ELSE "line 157")
            /\ UNCHANGED exitCode
    /\ UNCHANGED <<galleryVars, fetchCalls, response, csvText, result, rawItem,
                   item, grid, uncaught, arguments, folderFiles, backupFiles>>

\* Lines 25-53: mkdir -p "$BACKUP", the banner and the counts.
MakeBackupFolder ==
    /\ pc = "line 31"
    /\ folderFiles' =
          [f \in DOMAIN folderFiles \cup {Originals} |->
              IF f = Originals THEN "directory" ELSE folderFiles[f]]
    /\ pc' = "line 54"
    /\ UNCHANGED <<galleryVars, fetchCalls, response, csvText, result, rawItem,
                   item, grid, uncaught, arguments, backupFiles, exitCode>>

\* Lines 54-88, one turn of the loop: cp "$file" "$BACKUP/"; mogrify ... "$file".
CompressJpeg(file) ==
    /\ pc = "line 54"
    /\ file \in JpegsLeft
    /\ backupFiles' = backupFiles \cup {file}
    /\ folderFiles' = [folderFiles EXCEPT ![file] = "compressed"]
    /\ UNCHANGED <<galleryVars, pc, fetchCalls, response, csvText, result,
                   rawItem, item, grid, uncaught, arguments, exitCode>>

\* Lines 88-92: done, and the heading of the PNG loop.
FinishJpegs ==
    /\ pc = "line 54"
    /\ JpegsLeft = {}
    /\ pc' = "line 93"
    /\ UNCHANGED <<galleryVars, fetchCalls, response, csvText, result, rawItem,
                   item, grid, uncaught, scriptVars>>

\* Lines 93-129, one turn of the loop: cp "$file" "$BACKUP/"; magick "$file" ...
\* "${FOLDER}/${basename_no_ext}.jpg"; rm "$file".
ConvertPng(file) ==
    /\ pc = "line 93"
    /\ file \in PngsLeft
    /\ backupFiles' = backupFiles \cup {file}
    /\ folderFiles' =
          [f \in (DOMAIN folderFiles \ {file}) \cup {<<file[1], "jpg">>} |->
              IF f = <<file[1], "jpg">> THEN "converted" ELSE folderFiles[f]]
    /\ UNCHANGED <<galleryVars, pc, fetchCalls, response, csvText, result,
                   rawItem, item, grid, uncaught, arguments, exitCode>>

\* Lines 129-137: done, and the summary of the first body.
FinishPngs ==
    /\ pc = "line 93"
    /\ PngsLeft = {}
    /\ pc' = "line 144"
    /\ UNCHANGED <<galleryVars, fetchCalls, response, csvText, result, rawItem,
                   item, grid, uncaught, scriptVars>>

\* Lines 157-168 of the second body: the counts and the heading.
CountFiles ==
    /\ pc = "line 157"
    /\ pc' = "line 169"
    /\ UNCHANGED <<galleryVars, fetchCalls, response, csvText, result, rawItem,
                   item, grid, uncaught, scriptVars>>

\* Line 169: for file in "$FOLDER"/*.{jpg,jpeg} 2>/dev/null; do.  A
\* redirection cannot stand in the word list of a for command: bash reports a
\* syntax error and leaves the script with status 2.
ForSyntaxError ==
    /\ pc = "line 169"
    /\ Exit(2)
    /\ UNCHANGED <<galleryVars, fetchCalls, response, csvText, result, rawItem,
                   item, grid, uncaught, arguments, folderFiles, backupFiles>>

NextScript ==
    \/ CheckArgument
    \/ CheckDirectory
    \/ MakeBackupFolder
    \/ \E file \in FileNames : CompressJpeg(file)
    \/ FinishJpegs
    \/ \E file \in FileNames : ConvertPng(file)
    \/ FinishPngs
    \/ CountFiles
    \/ ForSyntaxError

SpecScript == InitScript /\ [][NextScript]_vars

\* C21: the script exits with code 1 when it is given no argument or when the
\* argument is not an existing directory, before it has created or modified
\* any file, and with code 0 in every other case.
C21_ExitCodes ==
    (pc = "exited") =>
        IF Param1(arguments) = "" \/ ~IsDirectory(Param1(arguments))
        THEN /\ exitCode = 1
             /\ backupFiles = {}
             /\ \A f \in DOMAIN folderFiles : folderFiles[f] = "original"
        ELSE exitCode = 0

\* ---------------------------------------------------- the claims, continued

\* The cards on which an event of the current state runs navigateImage: a
\* click on an arrow of the card, or the end of a swipe past the threshold
\* inside its image container while the modal is closed.
CardsNavigated ==
    { c \in Cards : cards[c].nav }
    \cup { c \in Cards :
             /\ cards[c].container
             /\ ~modalActive
             /\ \E x \in EndCoords : Abs(touchStartX - x) > swipeThreshold }

\* C22: in no reachable state is a navigation step run with an empty or
\* missing image list, so that no remainder modulo 0 is taken: a card without
\* images has no image container and opens no modal, navigateImage finds a
\* non-empty list on the card, and navigateModalImage runs only after an
\* opening has stored a non-empty list.  The arrows of the modal are in the
\* document, with their listeners, from createModal and init on, so that a
\* click on them is an event of every state.
C22_NoNavigationWithoutList ==
    /\ \A c \in Cards :
          Len(cards[c].images) = 0 => (~cards[c].container /\ ~cards[c].nav)
    /\ \A c \in CardsNavigated :
          /\ CardHasList(c)
          /\ Len(CardImages(c)) > 0
    /\ ModalHasList
    /\ Len(ModalImages) > 0

\* The states the events of the current state lead to: the clicks, the ends
\* and the starts of touches, and the keys.
AfterCardNavigation(c) ==
    { AfterClick(class, c) :
        class \in { k \in {"image-nav-prev", "image-nav-next"} : cards[c].nav } }
    \cup { AfterTouchEnd("item-main-image", c, x) :
             x \in { e \in EndCoords : cards[c].container } }

AfterAnyEvent ==
    UNION { AfterCardNavigation(c) : c \in Cards }
    \cup { AfterClick("item-main-image", c) : c \in { d \in Cards : cards[d].container } }
    \cup { AfterClick(class, NoCard) : class \in ModalClasses }
    \cup { AfterTouchStart("item-main-image", c, x) :
             c \in { d \in Cards : cards[d].container }, x \in StartCoords }
    \cup { AfterTouchStart(class, NoCard, x) : class \in ModalClasses, x \in StartCoords }
    \cup { AfterTouchEnd(class, NoCard, x) : class \in ModalClasses, x \in EndCoords }
    \cup { AfterKeyDown(key) : key \in Keys }

\* The cards that differ between the current state and state t.
ChangedCards(t) == { c \in Cards : t.cards[c] # cards[c] }

\* C23: cards are independent: every single event changes the index and the
\* displayed image of at most one card; a click on a card's arrow or a swipe
\* on a card changes only that card; a navigation step of the modal changes
\* only the card that opened the modal, the one it is bound to and whose list
\* it holds; and no event changes the image list of any card.
C23_CardsIndependent ==
    /\ \A t \in AfterAnyEvent :
          /\ Cardinality(ChangedCards(t)) <= 1
          /\ \A c \in Cards :
                /\ t.cards[c].dataImages = cards[c].dataImages
                /\ t.cards[c].images = cards[c].images
    /\ \A c \in Cards : \A t \in AfterCardNavigation(c) : ChangedCards(t) \subseteq {c}
    /\ \A t \in AfterModalNavigation :
          \A c \in ChangedCards(t) : c = currentModalCard /\ Mirroring

==========================================================================
